---- MODULE Spec2Model ----
(***************************************************************************)
(* Model of redkeep's oplog tailer (tail.go): the TailAgent.Tail read loop, *)
(* the tailable cursor it drives, and analyzeResult, the dispatch task that *)
(* is spawned as a goroutine for every entry read.                          *)
(*                                                                          *)
(* Values of Go's interface{} are records [t |-> type, v |-> value]; a key  *)
(* missing from a map is the value Absent.  Strings that the code indexes   *)
(* or splits (namespaces, op codes) are sequences of one-character strings. *)
(* A 64-bit oplog timestamp is the tuple of its four 16-bit words, most     *)
(* significant first, compared as the server compares it (unsigned).        *)
(***************************************************************************)
EXTENDS Integers, Sequences, FiniteSets, TLC

VARIABLES
    watches,        \* t.config.Watches
    startTime,      \* t.startTime, as Unix seconds (an int64 in words)
    forceRescan,    \* Tail's forceRescan argument
    oplog,          \* local.oplog.rs, in natural order
    quit,           \* values on the quit channel not yet received
    pc,             \* where Tail is: idle, poll, next, after, done, crashed
    iter,           \* the cursor Tail reads
    lastTimestamp,  \* Tail's lastTimestamp
    result,         \* Tail's result map
    ret,            \* Tail's return value
    cursors,        \* the filters of the cursors opened so far, in order
    tasks,          \* the analyzeResult goroutines spawned so far, in order
    process,        \* "running", or "crashed" after an unrecovered panic
    sessions,       \* the mgo sessions: "none", "open" or "closed", by number
    closedCursors,  \* the cursors (places of cursors) that were closed
    pure,           \* a call of a function on its own: input and output
    heap            \* the maps of a read loop and of the tasks it spawned

vars == <<watches, startTime, forceRescan, oplog, quit, pc, iter,
          lastTimestamp, result, ret, cursors, tasks, process, sessions,
          closedCursors, pure, heap>>

----------------------------------------------------------------------------
(* Bounds of the model *)

MaxLog == 3
MaxWatches == 2
MaxCursors == 3

----------------------------------------------------------------------------
(* Go values *)

Nil == "nil"
Absent == [t |-> "absent", v |-> <<>>]
Str(s) == [t |-> "string", v |-> s]
Int32(s) == [t |-> "int", v |-> s]
ObjectId(s) == [t |-> "ObjectId", v |-> s]
Doc(id, body) == [t |-> "doc", v |-> [id |-> id, body |-> body]]
Timestamp(w) == [t |-> "Timestamp", v |-> w]

IsString(x) == x.t = "string"
IsDoc(x) == x.t = "doc"
IsObjectId(x) == x.t = "ObjectId"
IsTimestamp(x) == x.t = "Timestamp"

\* the zero value of bson.ObjectId (a string type)
ZeroObjectId == ObjectId(<<>>)
\* doc["_id"]
DocId(d) == d.v.id

----------------------------------------------------------------------------
(* Timestamps *)

\* two bytes of the timestamp
Word == 256 * 256
ZeroTimestamp == <<0, 0, 0, 0>>

RECURSIVE TsLess(_, _)
TsLess(a, b) ==
    IF a = <<>> THEN FALSE
    ELSE IF Head(a) # Head(b) THEN Head(a) < Head(b)
    ELSE TsLess(Tail(a), Tail(b))

\* m.Unix() is an int64: four 16-bit words in two's complement, the most
\* significant first. UnixSeconds(n) are the seconds of time.Unix(n, 0) for
\* an n of one word.
UnixSeconds(n) == <<0, 0, 0, n>>

\* MongoTimestamp, the seconds written to the low half
MongoTimestamp_Low(unix) ==
    <<0, 0, unix[3], unix[4]>>

\* mongoTimestamp.MongoTimestamp: uint32(m.Unix()), the low 32 bits of the
\* seconds, written big-endian into bytes 0..3 of a zeroed buffer, whose
\* first eight bytes are read back as a big-endian uint64.
MongoTimestamp(unix) ==
    <<unix[3], unix[4], 0, 0>>

----------------------------------------------------------------------------
(* Operation parser *)

\* strings.Index(s, c): the zero-based place of the first c in s, or -1
Index(s, c) ==
    IF \E i \in 1..Len(s) : s[i] = c
    THEN (CHOOSE i \in 1..Len(s) : s[i] = c /\ \A j \in 1..(i - 1) : s[j] # c) - 1
    ELSE -1

\* NewOplogQuery, splitting at the last dot
NewOplogQuery_LastDot(dataset) ==
    LET ok == IsString(dataset.ns)
        namespace == IF ok THEN dataset.ns.v ELSE <<>>
        dots == {i \in 1..Len(namespace) : namespace[i] = "."}
        p == (CHOOSE i \in dots : \A j \in dots : j <= i) - 1
    IN  IF namespace = <<>> \/ ~ok
        THEN [err |-> "namespace not given", db |-> <<>>, collection |-> <<>>,
              dataset |-> dataset]
        ELSE IF dots = {}
        THEN [err |-> "Invalid namespace given, must contain dot", db |-> <<>>,
              collection |-> <<>>, dataset |-> dataset]
        ELSE [err |-> Nil,
              db |-> SubSeq(namespace, 1, p),
              collection |-> SubSeq(namespace, p + 2, Len(namespace)),
              dataset |-> dataset]

\* NewOplogQuery
NewOplogQuery(dataset) ==
    LET ok == IsString(dataset.ns)
        namespace == IF ok THEN dataset.ns.v ELSE <<>>
        p == Index(namespace, ".")
    IN  IF namespace = <<>> \/ ~ok
        THEN [err |-> "namespace not given", db |-> <<>>, collection |-> <<>>,
              dataset |-> dataset]
        ELSE IF p = -1
        THEN [err |-> "Invalid namespace given, must contain dot", db |-> <<>>,
              collection |-> <<>>, dataset |-> dataset]
        ELSE [err |-> Nil,
              db |-> SubSeq(namespace, 1, p),
              collection |-> SubSeq(namespace, p + 2, Len(namespace)),
              dataset |-> dataset]

\* oplogQuery.DB, oplogQuery.C, oplogQuery.OP
DB(query) == query.db
C(query) == query.collection
OP(query) == IF IsString(query.dataset.op) THEN query.dataset.op.v ELSE <<>>

----------------------------------------------------------------------------
(* Watch matcher and dispatcher *)

Watch(target, track) == [TargetCollection |-> target, TrackCollection |-> track]
DBRef(col, id, db) == [Collection |-> col, Id |-> id, Database |-> db]

\* A value that is a mapping from keys to values.
Map(f) == [t |-> "map", v |-> f]
IsMap(x) == x.t = "map"

\* GetValue: the value found under key in target, nothing when target is no
\* mapping or has no such key.
GetValue(key, target) ==
    IF IsMap(target) /\ key \in DOMAIN target.v THEN target.v[key] ELSE Absent

\* getReference, valid as soon as one of $id and $ref is there
getReference_Either(target, originalDatabase) ==
    LET idv == GetValue("$id", target)
        okID == IsObjectId(idv)
        id == IF okID THEN idv ELSE ZeroObjectId
        refv == GetValue("$ref", target)
        okRef == IsString(refv)
        col == IF okRef THEN refv.v ELSE <<>>
        dbv == GetValue("$db", target)
        okDb == IsString(dbv)
        db == IF ~okDb THEN originalDatabase ELSE dbv.v
    IN  [ref |-> DBRef(col, id, db), ok |-> okID \/ okRef]

\* getReference
getReference(target, originalDatabase) ==
    LET idv == GetValue("$id", target)
        okID == IsObjectId(idv)
        id == IF okID THEN idv ELSE ZeroObjectId
        refv == GetValue("$ref", target)
        okRef == IsString(refv)
        col == IF okRef THEN refv.v ELSE <<>>
        dbv == GetValue("$db", target)
        okDb == IsString(dbv)
        db == IF ~okDb THEN originalDatabase ELSE dbv.v
    IN  [ref |-> DBRef(col, id, db), ok |-> okID /\ okRef]

\* One invocation of a tracker method for the k-th watch of the list.
Call(h, k, w, doc, arg) == [h |-> h, k |-> k, w |-> w, doc |-> doc, arg |-> arg]

\* What one pass of the loop body does: the tracker calls it makes and how it
\* leaves ("next": on to the next watch, "return", "panic").
Pass(calls, flow) == [calls |-> calls, flow |-> flow]

\* case "i"
CaseInsert(k, w, dataset, command, triggerRef, namespace) ==
    IF w.TargetCollection = namespace
    THEN Pass(<<Call("HandleInsert", k, w, command, triggerRef)>>, "next")
    ELSE Pass(<<>>, "next")

\* case "u"
CaseUpdate(k, w, dataset, command, triggerRef, namespace) ==
    LET o2 == dataset.o2
        \* dataset["o2"].(map[string]interface{})["_id"].(bson.ObjectId)
        asserted == IsDoc(o2) /\ IsObjectId(DocId(o2))
        ref == DBRef(triggerRef.Collection, DocId(o2), triggerRef.Database)
        target == IF w.TargetCollection = namespace
                  THEN <<Call("HandleInsert", k, w, command, ref)>>
                  ELSE <<>>
        track == IF w.TrackCollection = namespace /\ IsDoc(o2)
                 THEN <<Call("HandleUpdate", k, w, command, o2)>>
                 ELSE <<>>
    IN  IF w.TargetCollection = namespace /\ ~asserted
        THEN Pass(<<>>, "panic")
        ELSE Pass(target \o track, "next")

\* case "d", matching on the target collection instead
CaseDelete_Target(k, w, dataset, command, triggerRef, namespace) ==
    IF w.TargetCollection = namespace /\ IsDoc(dataset.o2)
    THEN Pass(<<Call("HandleRemove", k, w, command, dataset.o2)>>, "next")
    ELSE Pass(<<>>, "next")

\* case "d"
CaseDelete(k, w, dataset, command, triggerRef, namespace) ==
    IF w.TrackCollection = namespace /\ IsDoc(dataset.o2)
    THEN Pass(<<Call("HandleRemove", k, w, command, dataset.o2)>>, "next")
    ELSE Pass(<<>>, "next")

\* case "c", handled as an insert
CaseCommand_AsInsert(k, w, dataset, command, triggerRef, namespace) ==
    IF w.TargetCollection = namespace
    THEN Pass(<<Call("HandleInsert", k, w, command, triggerRef)>>, "next")
    ELSE Pass(<<>>, "next")

\* case "c"
CaseCommand(k, w, dataset, command, triggerRef, namespace) ==
    Pass(<<>>, "next")

\* default
CaseDefault(k, w, dataset, command, triggerRef, namespace) ==
    Pass(<<>>, "return")

\* the switch on operationType
Switch(operationType, k, w, dataset, command, triggerRef, namespace) ==
    CASE operationType = <<"i">> ->
            CaseInsert(k, w, dataset, command, triggerRef, namespace)
      [] operationType = <<"u">> ->
            CaseUpdate(k, w, dataset, command, triggerRef, namespace)
      [] operationType = <<"d">> ->
            CaseDelete(k, w, dataset, command, triggerRef, namespace)
      [] operationType = <<"c">> ->
            CaseCommand(k, w, dataset, command, triggerRef, namespace)
      [] OTHER ->
            CaseDefault(k, w, dataset, command, triggerRef, namespace)

\* for _, w := range watches, from the k-th watch on
RECURSIVE WatchLoop(_, _, _, _, _, _, _)
WatchLoop(k, ws, operationType, dataset, command, triggerRef, namespace) ==
    IF k > Len(ws) THEN Pass(<<>>, "next")
    ELSE LET one == Switch(operationType, k, ws[k], dataset, command,
                           triggerRef, namespace)
             rest == WatchLoop(k + 1, ws, operationType, dataset, command,
                               triggerRef, namespace)
         IN  IF one.flow = "next"
             THEN Pass(one.calls \o rest.calls, rest.flow)
             ELSE one

\* analyzeResult: the tracker calls made, in order, the lines logged, whether
\* the session was copied (s.Copy(), closed again by the deferred Close), and
\* how the goroutine ends: "done", or "panicked" (an unrecovered panic, which
\* ends the process).
analyzeResult(dataset, w) ==
    LET query == NewOplogQuery(dataset)
        triggerDB == DB(query)
        triggerCollection == C(query)
        operationType == OP(query)
        namespace == triggerDB \o <<".">> \o triggerCollection
        command == dataset.o
        triggerID == IF IsObjectId(DocId(command)) THEN DocId(command)
                     ELSE ZeroObjectId
        triggerRef == DBRef(triggerCollection, triggerID, triggerDB)
        loop == WatchLoop(1, w, operationType, dataset, command, triggerRef,
                          namespace)
    IN  IF query.err # Nil
        THEN [calls |-> <<>>, end |-> "done", logs |-> <<query.err>>,
              copied |-> FALSE]
        ELSE IF ~IsDoc(command)
        THEN [calls |-> <<>>, end |-> "done", logs |-> <<>>, copied |-> TRUE]
        ELSE [calls |-> loop.calls,
              end |-> IF loop.flow = "panic" THEN "panicked" ELSE "done",
              \* the default case logs before it returns
              logs |-> IF loop.flow = "return"
                       THEN <<"unsupported operation">> ELSE <<>>,
              copied |-> TRUE]

----------------------------------------------------------------------------
(* Inputs *)

NsAB == <<"a", ".", "b">>
NsAC == <<"a", ".", "c">>
NsABC == <<"a", ".", "b", ".", "c">>

Dataset(ns, op, o, o2, ts) == [ns |-> ns, op |-> op, o |-> o, o2 |-> o2, ts |-> ts]
\* a nil (or empty) map[string]interface{}
EmptyMap == Dataset(Absent, Absent, Absent, Absent, Absent)

NsValues == {Absent, Int32(<<"7">>), Str(<<>>), Str(<<"a", "b">>), Str(<<".">>),
             Str(NsAB), Str(NsAC), Str(NsABC)}
OpValues == {Absent, Int32(<<"7">>), Str(<<"i">>), Str(<<"u">>), Str(<<"d">>),
             Str(<<"c">>), Str(<<"x">>)}
DocValues(oid, body) == {Absent, Str(<<"s">>), Doc(ObjectId(<<oid>>), body),
                         Doc(Str(<<"k">>), body), Doc(Absent, body)}

\* the timestamp of the n-th second, ordinal 0
Second(n) == <<0, n, 0, 0>>

Datasets == {Dataset(ns, op, o, o2, Timestamp(Second(1))) :
                ns \in NsValues, op \in OpValues,
                o \in DocValues("1", "o"), o2 \in DocValues("2", "o2")}

Watches == {Watch(target, track) : target \in {NsAB, NsAC}, track \in {NsAB, NsAC}}
WatchLists == UNION {[1..n -> Watches] : n \in 0..MaxWatches}

\* The entries the oplog of the tail runs is filled with: a plain insert, an
\* update whose selector has a string _id, and an entry whose ts is no
\* timestamp.
LogEntries(ts) ==
    { Dataset(Str(NsAB), Str(<<"i">>), Doc(ObjectId(<<"1">>), "o"), Absent, ts),
      Dataset(Str(NsAB), Str(<<"u">>), Doc(Absent, "o"), Doc(Str(<<"k">>), "o2"), ts),
      Dataset(Str(NsAB), Str(<<"i">>), Doc(ObjectId(<<"1">>), "o"), Absent,
              Int32(<<"7">>)) }

StartTimes == {UnixSeconds(1)}
Errors == {"EOF"}

----------------------------------------------------------------------------
(* The tailable cursor *)

\* collection.Find({ts: {$gt: filter}}).LogReplay().Sort("$natural").Tail(d)
OpenCursor(filter) ==
    [filter |-> filter, pos |-> 1, err |-> Nil, timedout |-> FALSE]

\* {ts: {$gt: filter}}: the server compares within the timestamp type only
Matches(entry, filter) ==
    IsTimestamp(entry.ts) /\ TsLess(filter, entry.ts.v)

\* the places of the log the cursor has still to yield
Pending(it) ==
    {i \in it.pos..Len(oplog) : Matches(oplog[i], it.filter)}

First(S) == CHOOSE i \in S : \A j \in S : i <= j

----------------------------------------------------------------------------
(* State machine *)

\* A goroutine started on the map at address rec, which held dataset when it
\* was handed over; session 0 stands for no session.
Task(idx, dataset, rec) ==
    [idx |-> idx, dataset |-> dataset, rec |-> rec, state |-> "running",
     calls |-> <<>>, logs |-> <<>>, session |-> 0]

\* Maps are reference values: heap gives the content of the map at each
\* address, and a field that holds a map holds its address.
Ref(a) == [t |-> "ref", v |-> a]
IsRef(x) == x.t = "ref"

\* The map of the loop's variable result. A map that nothing refers to any
\* longer gives its address back, so every result map sits here.
ResultAddr == 1
\* The maps made for the k-th entry read: the documents o and o2 the decoder
\* builds, and copyResult.
OAddr(k) == 3 * k - 1
O2Addr(k) == 3 * k
CopyAddr(k) == 3 * k + 1

Store(h, a, m) == [b \in DOMAIN h \cup {a} |-> IF b = a THEN m ELSE h[b]]

\* iter.Next(&result): the decoder empties the map result refers to (a new
\* one when result is nil) and fills it with the fields of the entry, each
\* document among them decoded into a map of its own.
Decoded(h, entry, k) ==
    LET h1 == IF IsDoc(entry.o) THEN Store(h, OAddr(k), entry.o) ELSE h
        h2 == IF IsDoc(entry.o2) THEN Store(h1, O2Addr(k), entry.o2) ELSE h1
        top == [entry EXCEPT
                   !.o = IF IsDoc(entry.o) THEN Ref(OAddr(k)) ELSE entry.o,
                   !.o2 = IF IsDoc(entry.o2) THEN Ref(O2Addr(k)) ELSE entry.o2]
    IN  Store(h2, ResultAddr, top)

\* copyResult := make(map); for k, v := range result { copyResult[k] = v }
Copied(h, k) == Store(h, CopyAddr(k), h[ResultAddr])

\* What a reader of the map at address a finds, documents followed.
Deref(h, a) ==
    [h[a] EXCEPT !.o = IF IsRef(h[a].o) THEN h[h[a].o.v] ELSE h[a].o,
                 !.o2 = IF IsRef(h[a].o2) THEN h[h[a].o2.v] ELSE h[a].o2]

\* The sessions by number: Tail's session (its copy of t.session, which the
\* cursor reads with), Tail's sessionCopy, and the copy made by the k-th task.
ReadSession == 1
SessionCopy == 2
TaskSession(k) == SessionCopy + k
SessionIds == 1..TaskSession(MaxLog)
NoSessions == [id \in SessionIds |-> "none"]

\* no call of a function on its own
NoCall == [fn |-> "none", arg |-> <<>>, out |-> <<>>, done |-> FALSE]
\* no maps
NoHeap == <<>>

InitCommon ==
    /\ oplog = <<>>
    /\ quit = <<>>
    /\ pc = "idle"
    /\ iter = OpenCursor(ZeroTimestamp)
    /\ lastTimestamp = ZeroTimestamp
    /\ result = EmptyMap
    /\ ret = Nil
    /\ cursors = <<>>
    /\ process = "running"
    /\ closedCursors = {}
    /\ pure = NoCall

\* A TailAgent as NewTailAgentWithStartDate leaves it, Tail not yet called.
Init ==
    /\ InitCommon
    /\ heap = NoHeap
    /\ watches = <<Watch(NsAB, NsAC)>>
    /\ startTime \in StartTimes
    /\ forceRescan \in BOOLEAN
    /\ tasks = <<>>
    /\ sessions = NoSessions

\* Tail, up to the loop
TailStart ==
    /\ process = "running" /\ pc = "idle"
    /\ LET start == IF forceRescan THEN MongoTimestamp(UnixSeconds(0))
                    ELSE MongoTimestamp(startTime)
       IN  /\ iter' = OpenCursor(start)
           /\ cursors' = <<start>>
    /\ lastTimestamp' = ZeroTimestamp
    /\ sessions' = [sessions EXCEPT ![ReadSession] = "open",
                                     ![SessionCopy] = "open"]
    /\ pc' = "poll"
    /\ UNCHANGED <<pure, heap, closedCursors, watches, startTime, forceRescan,
                   oplog, quit, result, ret, tasks, process>>

\* select: case <-quit, leaving the select only
PollQuit_Break ==
    /\ process = "running" /\ pc = "poll"
    /\ quit # <<>>
    /\ quit' = Tail(quit)
    /\ result' = EmptyMap
    /\ heap' = Store(heap, ResultAddr, EmptyMap)
    /\ pc' = "next"
    /\ UNCHANGED <<pure, sessions, closedCursors, watches, startTime, forceRescan, oplog, iter, lastTimestamp,
                   ret, cursors, tasks, process>>

\* select: case <-quit
PollQuit ==
    /\ process = "running" /\ pc = "poll"
    /\ quit # <<>>
    /\ quit' = Tail(quit)
    /\ ret' = Nil
    /\ pc' = "done"
    \* defer session.Close()
    /\ sessions' = [sessions EXCEPT ![ReadSession] = "closed"]
    /\ UNCHANGED <<pure, heap, closedCursors, watches, startTime, forceRescan, oplog, iter, lastTimestamp,
                   result, cursors, tasks, process>>

\* select: default
PollDefault ==
    /\ process = "running" /\ pc = "poll"
    /\ quit = <<>>
    /\ result' = EmptyMap
    /\ heap' = Store(heap, ResultAddr, EmptyMap)
    /\ pc' = "next"
    /\ UNCHANGED <<pure, sessions, closedCursors, watches, startTime, forceRescan, oplog, quit, iter,
                   lastTimestamp, ret, cursors, tasks, process>>

\* the body of the inner loop, lastTimestamp left as it is
NextEntry_NoUpdate ==
    /\ process = "running" /\ pc = "next"
    /\ iter.err = Nil
    /\ Pending(iter) # {}
    /\ LET i == First(Pending(iter))
           k == Len(tasks) + 1
           decoded == Decoded(heap, oplog[i], k)
       IN  /\ iter' = [iter EXCEPT !.pos = i + 1, !.timedout = FALSE]
           /\ result' = oplog[i]
           /\ heap' = Copied(decoded, k)
           /\ tasks' = Append(tasks, Task(i, Deref(heap', CopyAddr(k)),
                                          CopyAddr(k)))
    /\ UNCHANGED <<pure, sessions, closedCursors, watches, startTime,
                   forceRescan, oplog, quit, pc, ret, cursors, lastTimestamp,
                   process>>

\* the body of the inner loop, result itself handed to the goroutine
NextEntry_NoCopy ==
    /\ process = "running" /\ pc = "next"
    /\ iter.err = Nil
    /\ Pending(iter) # {}
    /\ LET i == First(Pending(iter))
           k == Len(tasks) + 1
       IN  /\ iter' = [iter EXCEPT !.pos = i + 1, !.timedout = FALSE]
           /\ result' = oplog[i]
           /\ heap' = Decoded(heap, oplog[i], k)
           /\ lastTimestamp' = oplog[i].ts.v
           /\ tasks' = Append(tasks, Task(i, Deref(heap', ResultAddr),
                                          ResultAddr))
    /\ UNCHANGED <<pure, sessions, closedCursors, watches, startTime,
                   forceRescan, oplog, quit, pc, ret, cursors, process>>

\* iter.Next returns true: the body of the inner loop
NextEntry ==
    /\ process = "running" /\ pc = "next"
    /\ iter.err = Nil
    /\ Pending(iter) # {}
    /\ LET i == First(Pending(iter))
           k == Len(tasks) + 1
           decoded == Decoded(heap, oplog[i], k)
       IN  /\ iter' = [iter EXCEPT !.pos = i + 1, !.timedout = FALSE]
           /\ result' = oplog[i]
           /\ IF IsTimestamp(oplog[i].ts)
              THEN /\ lastTimestamp' = oplog[i].ts.v
                   /\ heap' = Copied(decoded, k)
                   /\ tasks' = Append(tasks, Task(i, Deref(heap', CopyAddr(k)),
                                                  CopyAddr(k)))
                   /\ process' = process
              ELSE /\ process' = "crashed"
                   /\ heap' = decoded
                   /\ UNCHANGED <<lastTimestamp, tasks>>
    /\ UNCHANGED <<pure, sessions, closedCursors, watches, startTime,
                   forceRescan, oplog, quit, pc, ret, cursors>>

\* iter.Next returns false: the wait elapsed with nothing new
NextTimeout ==
    /\ process = "running" /\ pc = "next"
    /\ iter.err = Nil
    /\ Pending(iter) = {}
    /\ iter' = [iter EXCEPT !.timedout = TRUE]
    /\ pc' = "after"
    /\ UNCHANGED <<pure, heap, sessions, closedCursors, watches, startTime, forceRescan, oplog, quit, lastTimestamp,
                   result, ret, cursors, tasks, process>>

\* iter.Next returns false: the cursor failed
NextError(e) ==
    /\ process = "running" /\ pc = "next"
    /\ iter' = [iter EXCEPT !.err = e, !.timedout = FALSE]
    /\ pc' = "after"
    /\ UNCHANGED <<pure, heap, sessions, closedCursors, watches, startTime, forceRescan, oplog, quit, lastTimestamp,
                   result, ret, cursors, tasks, process>>

\* iter.Next returns false: the cursor is no longer valid
NextDead ==
    /\ process = "running" /\ pc = "next"
    /\ iter.err = Nil
    /\ Len(cursors) < MaxCursors
    /\ iter' = [iter EXCEPT !.timedout = FALSE]
    /\ pc' = "after"
    /\ UNCHANGED <<pure, heap, sessions, closedCursors, watches, startTime, forceRescan, oplog, quit, lastTimestamp,
                   result, ret, cursors, tasks, process>>

\* if iter.Err() != nil, query again
CheckErr_Retry ==
    /\ process = "running" /\ pc = "after"
    /\ iter.err # Nil
    /\ iter' = OpenCursor(lastTimestamp)
    /\ cursors' = Append(cursors, lastTimestamp)
    /\ pc' = "poll"
    /\ UNCHANGED <<pure, heap, sessions, closedCursors, watches, startTime, forceRescan, oplog, quit, lastTimestamp,
                   result, ret, tasks, process>>

\* if iter.Err() != nil { return iter.Close() }
CheckErr ==
    /\ process = "running" /\ pc = "after"
    /\ iter.err # Nil
    /\ ret' = iter.err
    /\ closedCursors' = closedCursors \cup {Len(cursors)}
    /\ pc' = "done"
    \* defer session.Close()
    /\ sessions' = [sessions EXCEPT ![ReadSession] = "closed"]
    /\ UNCHANGED <<pure, heap, watches, startTime, forceRescan, oplog, quit, iter,
                   lastTimestamp, result, cursors, tasks, process>>

\* if iter.Timeout(), query again
CheckTimeout_Requery ==
    /\ process = "running" /\ pc = "after"
    /\ iter.err = Nil
    /\ iter.timedout
    /\ iter' = OpenCursor(lastTimestamp)
    /\ cursors' = Append(cursors, lastTimestamp)
    /\ pc' = "poll"
    /\ UNCHANGED <<pure, heap, sessions, closedCursors, watches, startTime,
                   forceRescan, oplog, quit, lastTimestamp, result, ret,
                   tasks, process>>

\* if iter.Timeout() { continue }
CheckTimeout ==
    /\ process = "running" /\ pc = "after"
    /\ iter.err = Nil
    /\ iter.timedout
    /\ pc' = "poll"
    /\ UNCHANGED <<pure, heap, sessions, closedCursors, watches, startTime, forceRescan, oplog, quit, iter,
                   lastTimestamp, result, ret, cursors, tasks, process>>

\* the requery at the end of the loop body
Requery ==
    /\ process = "running" /\ pc = "after"
    /\ iter.err = Nil
    /\ ~iter.timedout
    /\ iter' = OpenCursor(lastTimestamp)
    /\ cursors' = Append(cursors, lastTimestamp)
    /\ pc' = "poll"
    /\ UNCHANGED <<pure, heap, sessions, closedCursors, watches, startTime, forceRescan, oplog, quit, lastTimestamp,
                   result, ret, tasks, process>>

\* A goroutine started by go analyzeResult(copyResult, t.config.Watches[:],
\* sessionCopy) waits on the database at each call of the tracker, and the
\* loop and the other goroutines run meanwhile: it takes one step up to
\* NewChangeTracker, one step for each call, and one step to its end.

\* analyzeResult up to NewChangeTracker, working on s itself
TaskBegin_Shared(i) ==
    /\ process = "running"
    /\ i \in 1..Len(tasks)
    /\ tasks[i].state = "running"
    /\ LET r == analyzeResult(Deref(heap, tasks[i].rec), watches)
       IN  IF ~r.copied
           THEN tasks' = [tasks EXCEPT ![i].state = r.end, ![i].logs = r.logs]
           ELSE tasks' = [tasks EXCEPT ![i].state = "started",
                                       ![i].session = SessionCopy]
    /\ UNCHANGED <<pure, heap, sessions, closedCursors, watches, startTime,
                   forceRescan, oplog, quit, pc, iter, lastTimestamp, result,
                   ret, cursors, process>>

\* analyzeResult up to NewChangeTracker: the record is parsed, and unless
\* that fails the session is copied for the tracker.
TaskBegin(i) ==
    /\ process = "running"
    /\ i \in 1..Len(tasks)
    /\ tasks[i].state = "running"
    /\ LET r == analyzeResult(Deref(heap, tasks[i].rec), watches)
       IN  IF ~r.copied
           THEN /\ tasks' = [tasks EXCEPT ![i].state = r.end,
                                          ![i].logs = r.logs]
                /\ UNCHANGED sessions
           ELSE \* session := s.Copy()
                /\ tasks' = [tasks EXCEPT ![i].state = "started",
                                          ![i].session = TaskSession(i)]
                /\ sessions' = [sessions EXCEPT ![TaskSession(i)] = "open"]
    /\ UNCHANGED <<pure, heap, closedCursors, watches, startTime,
                   forceRescan, oplog, quit, pc, iter, lastTimestamp, result,
                   ret, cursors, process>>

\* the next call of the tracker that analyzeResult makes
TaskCall(i) ==
    /\ process = "running"
    /\ i \in 1..Len(tasks)
    /\ tasks[i].state = "started"
    /\ LET r == analyzeResult(Deref(heap, tasks[i].rec), watches)
           n == Len(tasks[i].calls)
       IN  /\ n < Len(r.calls)
           /\ tasks' = [tasks EXCEPT ![i].calls = Append(@, r.calls[n + 1])]
    /\ UNCHANGED <<pure, heap, sessions, closedCursors, watches, startTime,
                   forceRescan, oplog, quit, pc, iter, lastTimestamp, result,
                   ret, cursors, process>>

\* analyzeResult after its last call: it returns or panics, and the deferred
\* session.Close() runs on either way out.
TaskEnd(i) ==
    /\ process = "running"
    /\ i \in 1..Len(tasks)
    /\ tasks[i].state = "started"
    /\ LET r == analyzeResult(Deref(heap, tasks[i].rec), watches)
       IN  /\ Len(tasks[i].calls) = Len(r.calls)
           /\ tasks' = [tasks EXCEPT ![i].state = r.end, ![i].logs = r.logs]
           /\ sessions' = [sessions EXCEPT ![tasks[i].session] = "closed"]
           /\ process' = IF r.end = "panicked" THEN "crashed" ELSE process
    /\ UNCHANGED <<pure, heap, closedCursors, watches, startTime,
                   forceRescan, oplog, quit, pc, iter, lastTimestamp, result,
                   ret, cursors>>

\* a step of the i-th goroutine
TaskStep(i) == TaskBegin(i) \/ TaskCall(i) \/ TaskEnd(i)

\* the database appends an entry to the oplog
AppendEntry(e) ==
    /\ Len(oplog) < MaxLog
    /\ oplog' = Append(oplog, e)
    /\ UNCHANGED <<pure, heap, sessions, closedCursors, watches, startTime, forceRescan, quit, pc, iter,
                   lastTimestamp, result, ret, cursors, tasks, process>>

\* the caller sends v on the quit channel while Tail has not returned; one
\* sender, so at most one value waits to be received
Send(v) ==
    /\ pc # "done"
    /\ quit = <<>>
    /\ quit' = Append(quit, v)
    /\ UNCHANGED <<pure, heap, sessions, closedCursors, watches, startTime, forceRescan, oplog, pc, iter,
                   lastTimestamp, result, ret, cursors, tasks, process>>

TailStep ==
    \/ TailStart
    \/ PollQuit
    \/ PollDefault
    \/ NextEntry
    \/ NextTimeout
    \/ CheckErr
    \/ CheckTimeout
    \/ Requery

Next ==
    \/ TailStart
    \/ PollQuit
    \/ PollDefault
    \/ NextEntry
    \/ NextTimeout
    \/ \E e \in Errors : NextError(e)
    \/ NextDead
    \/ CheckErr
    \/ CheckTimeout
    \/ Requery
    \/ \E i \in 1..Len(tasks) : TaskBegin(i)
    \/ \E i \in 1..Len(tasks) : TaskCall(i)
    \/ \E i \in 1..Len(tasks) : TaskEnd(i)
    \/ \E e \in LogEntries(Timestamp(Second(Len(oplog) + 1))) : AppendEntry(e)
    \/ \E v \in BOOLEAN : Send(v)

Spec == Init /\ [][Next]_vars

\* analyzeResult called on its own, on any record and any list of watches
InitDispatch ==
    /\ InitCommon
    /\ watches \in WatchLists
    /\ startTime = UnixSeconds(0)
    /\ forceRescan = FALSE
    /\ \E d \in Datasets :
            /\ heap = Copied(Decoded(NoHeap, d, 1), 1)
            /\ tasks = <<Task(0, d, CopyAddr(1))>>
    /\ sessions = [NoSessions EXCEPT ![SessionCopy] = "open"]

NextDispatch ==
    \/ \E i \in 1..Len(tasks) : TaskBegin(i)
    \/ \E i \in 1..Len(tasks) : TaskCall(i)
    \/ \E i \in 1..Len(tasks) : TaskEnd(i)

SpecDispatch == InitDispatch /\ [][NextDispatch]_vars

\* The goroutines are scheduled fairly, and a cursor that is reopened again
\* and again yields an entry that is there to yield.
FairSpec ==
    /\ Spec
    /\ WF_vars(TailStep)
    /\ SF_vars(NextEntry)
    /\ \A i \in 1..MaxLog : WF_vars(TaskStep(i))

----------------------------------------------------------------------------
(* getReference on its own *)

\* The variables of the tail loop, at rest.
AgentAtRest ==
    /\ oplog = <<>>
    /\ quit = <<>>
    /\ pc = "idle"
    /\ iter = OpenCursor(ZeroTimestamp)
    /\ lastTimestamp = ZeroTimestamp
    /\ result = EmptyMap
    /\ ret = Nil
    /\ cursors = <<>>
    /\ process = "running"
    /\ closedCursors = {}
    /\ watches = <<>>
    /\ startTime = UnixSeconds(0)
    /\ forceRescan = FALSE
    /\ tasks = <<>>
    /\ sessions = NoSessions

\* A call about to be made.
CallOf(fn, arg) == [fn |-> fn, arg |-> arg, out |-> <<>>, done |-> FALSE]

IdValues == {Absent, ObjectId(<<"1">>), Str(<<"1">>), Int32(<<"7">>)}
RefValues == {Absent, Str(<<"c", "o", "l", "l">>), Int32(<<"7">>)}
DbValues == {Absent, Str(<<"o">>), Str(<<>>), Int32(<<"7">>)}

\* $id, $ref and $db each absent, well typed or mistyped; an absent key is
\* no key of the mapping.
Present(f) == [k \in {j \in DOMAIN f : f[j] # Absent} |-> f[k]]
Targets ==
    {Absent, Str(<<"x">>)} \cup
    {Map(Present([k \in {"$id", "$ref", "$db"} |->
                    IF k = "$id" THEN i ELSE IF k = "$ref" THEN r ELSE d])) :
        i \in IdValues, r \in RefValues, d \in DbValues}
Databases == {<<"d", "b">>, <<"a">>, <<>>}

InitReference ==
    /\ AgentAtRest
    /\ heap = NoHeap
    /\ \E t \in Targets, db \in Databases :
            pure = CallOf("getReference", <<t, db>>)

CallGetReference ==
    /\ pure.fn = "getReference"
    /\ ~pure.done
    /\ pure' = [pure EXCEPT !.out = getReference(pure.arg[1], pure.arg[2]),
                            !.done = TRUE]
    /\ UNCHANGED <<heap, sessions, closedCursors, watches, startTime,
                   forceRescan, oplog, quit, pc, iter, lastTimestamp, result,
                   ret, cursors, tasks, process>>

NextReference == CallGetReference

SpecReference == InitReference /\ [][NextReference]_vars

----------------------------------------------------------------------------
(* MongoTimestamp on its own *)

\* Unix seconds of the instants converted: -2^32, -2^31, -1, 0, 1, 65535,
\* 65536, 2^31 - 1, 2^31, 2^32 - 1 and 2^32.
Instants ==
    { <<Word - 1, Word - 1, 0, 0>>,
      <<Word - 1, Word - 1, Word \div 2, 0>>,
      <<Word - 1, Word - 1, Word - 1, Word - 1>>,
      UnixSeconds(0),
      UnixSeconds(1),
      UnixSeconds(Word - 1),
      <<0, 0, 1, 0>>,
      <<0, 0, Word \div 2 - 1, Word - 1>>,
      <<0, 0, Word \div 2, 0>>,
      <<0, 0, Word - 1, Word - 1>>,
      <<0, 1, 0, 0>> }

InitTimestamp ==
    /\ AgentAtRest
    /\ heap = NoHeap
    /\ \E a \in Instants, b \in Instants :
            pure = CallOf("MongoTimestamp", <<a, b>>)

\* Two instants are converted.
CallMongoTimestamp ==
    /\ pure.fn = "MongoTimestamp"
    /\ ~pure.done
    /\ pure' = [pure EXCEPT !.out = <<MongoTimestamp(pure.arg[1]),
                                      MongoTimestamp(pure.arg[2])>>,
                            !.done = TRUE]
    /\ UNCHANGED <<heap, sessions, closedCursors, watches, startTime,
                   forceRescan, oplog, quit, pc, iter, lastTimestamp, result,
                   ret, cursors, tasks, process>>

NextTimestamp == CallMongoTimestamp

SpecTimestamp == InitTimestamp /\ [][NextTimestamp]_vars

----------------------------------------------------------------------------
(* Properties of the tail loop *)

\* the resume position Tail starts from
InitialResume ==
    IF forceRescan THEN MongoTimestamp(UnixSeconds(0)) ELSE MongoTimestamp(startTime)

\* the i-th entry of the log has been handed to a dispatch task
Submitted(i) == \E k \in 1..Len(tasks) : tasks[k].idx = i

\* the i-th entry of the log is there and is later than the initial resume
\* position
Eligible(i) == i <= Len(oplog) /\ Matches(oplog[i], InitialResume)

SubmittedInLogOrder ==
    \A j, k \in 1..Len(tasks) : j < k => tasks[j].idx < tasks[k].idx

\* C1: in a run of Tail in which no value is sent on quit and the cursor
\* reports no error, every entry later than the initial resume position is
\* eventually submitted for dispatch, and entries are submitted in log order.
AtLeastOnceInOrder ==
    [](quit = <<>> /\ iter.err = Nil /\ pc # "done")
        => /\ []SubmittedInLogOrder
           /\ \A i \in 1..MaxLog : [](Eligible(i) => <>Submitted(i))

\* C2: no cursor is opened with a filter lower than the filter of an
\* earlier cursor of the run, the initial one included.
ResumeNeverRegresses ==
    \A j, k \in 1..Len(cursors) : j < k => ~TsLess(cursors[k], cursors[j])

\* C3: without forceRescan every entry submitted is later than the start
\* timestamp, and no entry is submitted twice.
NoReplay ==
    ~forceRescan =>
        /\ \A k \in 1..Len(tasks) :
              TsLess(MongoTimestamp(startTime), tasks[k].dataset.ts.v)
        /\ \A j, k \in 1..Len(tasks) : j # k => tasks[j].idx # tasks[k].idx

\* C4: whatever an entry holds, its dispatch task ends without taking the
\* process down, so that Tail keeps reading.
PerEventErrorsConfined ==
    /\ process = "running"
    /\ \A k \in 1..Len(tasks) : tasks[k].state # "panicked"

\* C5 as stated: once a value is on the quit channel, Tail returns nil; so
\* Tail has not returned anything else while a value sent to it waits.
QuitSentReturnsNil ==
    (pc = "done" /\ quit # <<>>) => ret = Nil

\* C5 as amended: the inner loop is entered only from a poll that found the
\* quit channel empty; a poll that finds a value returns nil at once; and
\* after the return no cursor is opened and no entry is submitted.
CancelOnReceipt ==
    [][ /\ (pc = "poll" /\ quit # <<>> /\ pc' # pc)
            => (pc' = "done" /\ ret' = Nil /\ quit' = Tail(quit))
        /\ (pc = "done")
            => (pc' = "done" /\ ret' = ret /\ cursors' = cursors
                /\ Len(tasks') = Len(tasks))
        /\ (pc' = "next" /\ pc # "next")
            => (pc = "poll" /\ quit = <<>>) ]_vars

\* Tail has returned nil on a value of quit while the log holds entries its
\* cursor has not yielded.
CancelOnReceiptWitness ==
    /\ pc = "done" /\ ret = Nil
    /\ Pending(iter) # {}
    /\ tasks # <<>>

\* C6: when the cursor has reported an error Tail's next step returns that
\* error, non-nil, without opening a cursor; Tail stays returned; and Tail
\* returns only on a value of quit, with nil, or on a cursor error.
CursorErrorFatal ==
    [][ /\ (pc = "after" /\ iter.err # Nil /\ pc' # pc)
            => (pc' = "done" /\ ret' = iter.err /\ ret' # Nil
                /\ cursors' = cursors)
        /\ (pc = "done")
            => (pc' = "done" /\ ret' = ret /\ cursors' = cursors)
        /\ (pc' = "done" /\ pc # "done")
            => \/ (pc = "poll" /\ quit # <<>> /\ ret' = Nil)
               \/ (pc = "after" /\ iter.err \in Errors /\ ret' = iter.err) ]_vars

\* Tail has returned the error its cursor reported, after a requery.
CursorErrorFatalWitness ==
    /\ pc = "done" /\ ret \in Errors
    /\ iter.err = ret
    /\ Len(cursors) > 1

----------------------------------------------------------------------------
(* Properties of the dispatch *)

\* the places of calls where method h is invoked for the k-th watch
CallsFor(calls, k, h) ==
    {j \in 1..Len(calls) : calls[j].k = k /\ calls[j].h = h}

\* task k has returned or panicked
Ended(k) == tasks[k].state \in {"done", "panicked"}

\* task k has run on an event of kind op that NewOplogQuery parses and whose
\* o is a document
Dispatched(k, op) ==
    /\ Ended(k)
    /\ NewOplogQuery(tasks[k].dataset).err = Nil
    /\ tasks[k].dataset.op = Str(op)
    /\ IsDoc(tasks[k].dataset.o)

\* C7: an insert of a document o that has an _id invokes HandleInsert once
\* for each watch whose TargetCollection is ns, with o and the reference
\* {database of ns, collection of ns, o._id}, and invokes nothing else.
InsertDispatch ==
    \A k \in 1..Len(tasks) :
        LET d == tasks[k].dataset
            q == NewOplogQuery(d)
            calls == tasks[k].calls
        IN  (Dispatched(k, <<"i">>) /\ DocId(d.o) # Absent) =>
              /\ \A n \in 1..Len(watches) :
                    /\ Cardinality(CallsFor(calls, n, "HandleInsert")) =
                          IF watches[n].TargetCollection = d.ns.v THEN 1 ELSE 0
                    /\ CallsFor(calls, n, "HandleUpdate") = {}
                    /\ CallsFor(calls, n, "HandleRemove") = {}
              /\ \A j \in 1..Len(calls) :
                    /\ calls[j].doc = d.o
                    /\ calls[j].arg = DBRef(q.collection, DocId(d.o), q.db)

\* C8: an update with document o and a selector o2 that has an _id invokes,
\* for every watch, HandleInsert with o and a reference to o2._id when its
\* TargetCollection is ns, HandleUpdate with (o, o2) when its TrackCollection
\* is ns, both when both are ns, and never HandleRemove.
UpdateDispatch ==
    \A k \in 1..Len(tasks) :
        LET d == tasks[k].dataset
            q == NewOplogQuery(d)
            calls == tasks[k].calls
        IN  (Dispatched(k, <<"u">>) /\ IsDoc(d.o2) /\ DocId(d.o2) # Absent) =>
              /\ \A n \in 1..Len(watches) :
                    /\ Cardinality(CallsFor(calls, n, "HandleInsert")) =
                          IF watches[n].TargetCollection = d.ns.v THEN 1 ELSE 0
                    /\ Cardinality(CallsFor(calls, n, "HandleUpdate")) =
                          IF watches[n].TrackCollection = d.ns.v THEN 1 ELSE 0
                    /\ CallsFor(calls, n, "HandleRemove") = {}
              /\ \A j \in 1..Len(calls) :
                    /\ calls[j].doc = d.o
                    /\ calls[j].h = "HandleInsert" =>
                          calls[j].arg = DBRef(q.collection, DocId(d.o2), q.db)
                    /\ calls[j].h = "HandleUpdate" => calls[j].arg = d.o2

\* C9: a delete with document o and selector o2 invokes HandleRemove once for
\* each watch whose TrackCollection is ns and for no other watch, with o and
\* o2 as they are, and invokes neither HandleInsert nor HandleUpdate.
DeleteDispatch ==
    \A k \in 1..Len(tasks) :
        LET d == tasks[k].dataset
            calls == tasks[k].calls
        IN  (Dispatched(k, <<"d">>) /\ IsDoc(d.o2)) =>
              /\ tasks[k].state = "done"
              /\ \A n \in 1..Len(watches) :
                    /\ Cardinality(CallsFor(calls, n, "HandleRemove")) =
                          IF watches[n].TrackCollection = d.ns.v THEN 1 ELSE 0
                    /\ CallsFor(calls, n, "HandleInsert") = {}
                    /\ CallsFor(calls, n, "HandleUpdate") = {}
              /\ \A j \in 1..Len(calls) :
                    calls[j].doc = d.o /\ calls[j].arg = d.o2

\* A delete has been dispatched to a list of two watches: the first tracks
\* ns and got HandleRemove, the second only targets ns and got nothing.
DeleteDispatchWitness ==
    /\ Len(tasks) = 1 /\ Len(watches) = 2
    /\ Dispatched(1, <<"d">>) /\ IsDoc(tasks[1].dataset.o2)
    /\ watches[1].TrackCollection = tasks[1].dataset.ns.v
    /\ watches[2].TargetCollection = tasks[1].dataset.ns.v
    /\ watches[2].TrackCollection # tasks[1].dataset.ns.v
    /\ Len(tasks[1].calls) = 1
    /\ tasks[1].calls[1].h = "HandleRemove"

\* C10: a task run on a command entry has invoked no tracker method and has
\* ended normally, whatever ns, o, o2 and the watches are.
CommandNoCalls ==
    \A k \in 1..Len(tasks) :
        (tasks[k].state # "running" /\ tasks[k].dataset.op = Str(<<"c">>)) =>
            /\ tasks[k].calls = <<>>
            /\ tasks[k].state # "panicked"

\* A command entry on a namespace that a watch targets and tracks, with
\* documents o and o2, has been dispatched.
CommandNoCallsWitness ==
    /\ Len(tasks) = 1 /\ Len(watches) >= 1
    /\ Dispatched(1, <<"c">>) /\ IsDoc(tasks[1].dataset.o2)
    /\ watches[1].TargetCollection = tasks[1].dataset.ns.v
    /\ watches[1].TrackCollection = tasks[1].dataset.ns.v

\* the operation codes the dispatcher knows
KnownOps == {<<"i">>, <<"u">>, <<"d">>, <<"c">>}

\* C11: with at least one watch, a task run on a parsed event whose
\* operation kind is none of "i", "u", "d", "c" (op absent or no string
\* included) has logged it as unsupported and has invoked no tracker method,
\* whatever o is.
UnsupportedLogged ==
    \A k \in 1..Len(tasks) :
        LET q == NewOplogQuery(tasks[k].dataset)
        IN  (/\ Ended(k)
             /\ q.err = Nil
             /\ Len(watches) >= 1
             /\ OP(q) \notin KnownOps) =>
                /\ tasks[k].logs = <<"unsupported operation">>
                /\ tasks[k].calls = <<>>

\* C12: parsing fails exactly when ns is absent, no string, empty or without
\* a dot, whatever op is; otherwise database is the part of ns before its
\* first dot (so it holds no dot), collection is all that follows, and
\* database + "." + collection is ns.
ParseContract ==
    \A k \in 1..Len(tasks) :
        LET ns == tasks[k].dataset.ns
            q == NewOplogQuery(tasks[k].dataset)
            bad == \/ ~IsString(ns)
                   \/ ns.v = <<>>
                   \/ ~\E i \in 1..Len(ns.v) : ns.v[i] = "."
        IN  /\ (q.err # Nil) <=> bad
            /\ ~bad => /\ DB(q) \o <<".">> \o C(q) = ns.v
                       /\ \A i \in 1..Len(DB(q)) : DB(q)[i] # "."

\* A record with ns "a.b.c" and no op has been parsed into database "a" and
\* collection "b.c" by a task that has run.
ParseContractWitness ==
    /\ Len(tasks) = 1
    /\ tasks[1].state = "done"
    /\ tasks[1].dataset.ns = Str(NsABC)
    /\ tasks[1].dataset.op = Absent
    /\ tasks[1].session # 0
    /\ DB(NewOplogQuery(tasks[1].dataset)) = <<"a">>
    /\ C(NewOplogQuery(tasks[1].dataset)) = <<"b", ".", "c">>

\* target holds a value of type ty under key
Holds(target, key, ty) ==
    /\ target.t = "map"
    /\ key \in DOMAIN target.v
    /\ target.v[key].t = ty

\* C13: getReference reports ok exactly when $id is there as an ObjectId and
\* $ref is there as a string; the reference it then returns has $ref as its
\* collection, $id as its id, and as its database $db when that is there as
\* a string, the default database otherwise.
ReferenceContract ==
    (pure.fn = "getReference" /\ pure.done) =>
        LET target == pure.arg[1]
            valid == /\ Holds(target, "$id", "ObjectId")
                     /\ Holds(target, "$ref", "string")
        IN  /\ pure.out.ok <=> valid
            /\ pure.out.ok =>
                /\ pure.out.ref.Collection = target.v["$ref"].v
                /\ pure.out.ref.Id = target.v["$id"]
                /\ pure.out.ref.Database =
                       IF Holds(target, "$db", "string")
                       THEN target.v["$db"].v
                       ELSE pure.arg[2]

\* getReference has resolved a marker with $id, $ref and no $db, the default
\* database filled in.
ReferenceContractWitness ==
    /\ pure.fn = "getReference"
    /\ pure.done
    /\ pure.out.ok
    /\ ~Holds(pure.arg[1], "$db", "string")
    /\ pure.out.ref = DBRef(<<"c", "o", "l", "l">>, ObjectId(<<"1">>), <<"d", "b">>)

\* an interface{} that holds nothing
NilValue == [t |-> "nil", v |-> <<>>]

\* the zero value of mgo.DBRef: its Id is an interface{}, nil when unset
ZeroDBRef == DBRef(<<>>, NilValue, <<>>)

\* C20: when getReference reports ok = false, the reference it returns is the
\* zero value.
ZeroOnFailure ==
    (pure.fn = "getReference" /\ pure.done /\ ~pure.out.ok) =>
        pure.out.ref = ZeroDBRef

\* the int64 a is negative
Negative(a) == a[1] >= Word \div 2

\* a < b for two int64: the instant of a is before the instant of b
Before(a, b) ==
    \/ Negative(a) /\ ~Negative(b)
    \/ Negative(a) = Negative(b) /\ TsLess(a, b)

\* ts is seconds * 2^32: its high 32 bits, read as a number, are seconds and
\* its low 32 bits are zero.
SecondsHigh(ts, seconds) ==
    /\ <<0, 0, ts[1], ts[2]>> = seconds
    /\ ts[3] = 0
    /\ ts[4] = 0

\* 0 <= seconds < 2^32
InRange(seconds) == seconds[1] = 0 /\ seconds[2] = 0

\* C14 as stated: for every instant the result of MongoTimestamp has the
\* instant's Unix seconds in its high 32 bits and zero in its low 32 bits,
\* an earlier instant converts to a smaller timestamp, and the instant
\* time.Unix(0, 0) converts to 0.
TimestampCodec ==
    (pure.fn = "MongoTimestamp" /\ pure.done) =>
        /\ \A i \in 1..2 : SecondsHigh(pure.out[i], pure.arg[i])
        /\ Before(pure.arg[1], pure.arg[2]) => TsLess(pure.out[1], pure.out[2])
        /\ pure.arg[1] = UnixSeconds(0) => pure.out[1] = ZeroTimestamp

\* C14, amended: for the instants whose Unix seconds s are in 0 <= s < 2^32
\* the result has s in its high 32 bits and zero in its low 32 bits, and an
\* earlier one of them converts to a smaller timestamp; time.Unix(0, 0)
\* converts to 0; and for every instant only s modulo 2^32 counts: the low
\* 32 bits of the result are zero, and two instants whose seconds agree
\* modulo 2^32 convert to the same timestamp.
TimestampCodecInRange ==
    (pure.fn = "MongoTimestamp" /\ pure.done) =>
        /\ \A i \in 1..2 :
               InRange(pure.arg[i]) => SecondsHigh(pure.out[i], pure.arg[i])
        /\ (/\ InRange(pure.arg[1]) /\ InRange(pure.arg[2])
            /\ Before(pure.arg[1], pure.arg[2])) =>
               TsLess(pure.out[1], pure.out[2])
        /\ pure.arg[1] = UnixSeconds(0) => pure.out[1] = ZeroTimestamp
        /\ \A i \in 1..2 : pure.out[i][3] = 0 /\ pure.out[i][4] = 0
        /\ (/\ pure.arg[1][3] = pure.arg[2][3]
            /\ pure.arg[1][4] = pure.arg[2][4]) => pure.out[1] = pure.out[2]

\* The instants 2^31 - 1 and 2^32 - 1 have been converted, in order.
TimestampCodecWitness ==
    /\ pure.fn = "MongoTimestamp"
    /\ pure.done
    /\ pure.arg = <<(<<0, 0, Word \div 2 - 1, Word - 1>>),
                    (<<0, 0, Word - 1, Word - 1>>)>>
    /\ pure.out = <<(<<Word \div 2 - 1, Word - 1, 0, 0>>),
                    (<<Word - 1, Word - 1, 0, 0>>)>>
    /\ TsLess(pure.out[1], pure.out[2])

\* C15: once Tail has observed an entry, lastTimestamp is the timestamp of
\* the entry observed last, already when that entry is submitted; no entry
\* observed has a greater timestamp, and no entry observed matches a query
\* for the timestamps above lastTimestamp.
ResumeTracksRead ==
    tasks # <<>> =>
        /\ lastTimestamp = tasks[Len(tasks)].dataset.ts.v
        /\ \A k \in 1..Len(tasks) :
               /\ ~TsLess(lastTimestamp, tasks[k].dataset.ts.v)
               /\ ~Matches(oplog[tasks[k].idx], lastTimestamp)

\* Two entries have been observed, the second through a cursor opened by a
\* requery, and Tail has queried again after it.
ResumeTracksReadWitness ==
    /\ Len(tasks) = 2
    /\ Len(cursors) = 3
    /\ tasks[1].dataset.ts.v # tasks[2].dataset.ts.v
    /\ lastTimestamp = tasks[2].dataset.ts.v
    /\ cursors[3] = lastTimestamp

\* C16: when iter.Next ends on an elapsed wait, with no error, Tail keeps
\* its cursor (none is opened), its resume position and the entries
\* submitted, and goes to the poll of quit; from that poll it either returns
\* nil on a received value or calls Next on the same cursor again.
IdleTimeoutFrame ==
    [][ /\ (pc = "next" /\ pc' = "after" /\ iter'.timedout) =>
            /\ iter'.filter = iter.filter /\ iter'.pos = iter.pos
            /\ iter'.err = Nil
            /\ cursors' = cursors
            /\ lastTimestamp' = lastTimestamp
            /\ tasks' = tasks
        /\ (pc = "after" /\ iter.timedout /\ pc' # pc) =>
            /\ pc' = "poll"
            /\ iter' = iter
            /\ cursors' = cursors
            /\ lastTimestamp' = lastTimestamp
            /\ tasks' = tasks
        /\ (pc = "poll" /\ iter.timedout /\ pc' # pc) =>
            \/ pc' = "done" /\ ret' = Nil /\ quit # <<>>
            \/ /\ pc' = "next"
               /\ iter' = iter
               /\ cursors' = cursors
               /\ lastTimestamp' = lastTimestamp
               /\ tasks' = tasks ]_vars

\* After an entry was read the wait has elapsed, quit was polled, and Tail
\* is about to call Next on its first cursor again.
IdleTimeoutFrameWitness ==
    /\ pc = "next"
    /\ iter.timedout
    /\ iter.err = Nil
    /\ Len(cursors) = 1
    /\ tasks # <<>>
    /\ lastTimestamp = tasks[Len(tasks)].dataset.ts.v
    /\ iter.filter = cursors[1]

\* C17: when Tail has returned, every cursor it opened is closed, and so are
\* the two session copies it made.
ResourcesReleased ==
    pc = "done" =>
        /\ closedCursors = 1..Len(cursors)
        /\ sessions[ReadSession] = "closed"
        /\ sessions[SessionCopy] = "closed"

\* C19: no step of the loop and no step of another task changes what a task
\* finds in the record it was handed, the fields of o and o2 included: the
\* record stays the entry that was read for it.
RecordIsolation ==
    [][\A k \in 1..Len(tasks) :
           /\ tasks'[k].rec = tasks[k].rec
           /\ Deref(heap', tasks[k].rec) = Deref(heap, tasks[k].rec)
           /\ Deref(heap', tasks[k].rec) = tasks[k].dataset]_vars

\* Two entries have been read into the same result map, one after the other;
\* neither task has run, each still finds its own entry, and the loop's map
\* holds the fields of the second.
RecordIsolationWitness ==
    /\ Len(tasks) = 2
    /\ tasks[1].state = "running" /\ tasks[2].state = "running"
    /\ tasks[1].dataset # tasks[2].dataset
    /\ Deref(heap, tasks[1].rec) = oplog[tasks[1].idx]
    /\ Deref(heap, tasks[2].rec) = oplog[tasks[2].idx]
    /\ tasks[1].rec # ResultAddr /\ tasks[2].rec # ResultAddr
    /\ heap[ResultAddr] = heap[tasks[2].rec]
    /\ IsRef(heap[tasks[1].rec].o)

\* the sessions Tail itself holds
LoopSessions == {ReadSession, SessionCopy}

\* C18: a task that has come to its tracker works on a session of its own,
\* open, which is neither session of the loop nor the session of another
\* task; once the task has ended, by return or by panic, that session is
\* closed; and no step of a task changes the state of a session of the loop.
SessionIsolation ==
    /\ [](\A k \in 1..Len(tasks) :
            /\ tasks[k].state = "started" =>
                   /\ tasks[k].session \in SessionIds \ LoopSessions
                   /\ sessions[tasks[k].session] = "open"
            /\ tasks[k].calls # <<>> => tasks[k].session # 0
            /\ (Ended(k) /\ tasks[k].session # 0) =>
                   /\ tasks[k].session \in SessionIds \ LoopSessions
                   /\ sessions[tasks[k].session] = "closed"
            /\ \A j \in 1..Len(tasks) :
                   (j # k /\ tasks[k].session # 0) =>
                       tasks[j].session # tasks[k].session)
    /\ [][(Len(tasks') = Len(tasks) /\ tasks' # tasks) =>
              \A id \in LoopSessions : sessions'[id] = sessions[id]]_vars

\* Two tasks are at their trackers at once, each on its own open session,
\* while the loop still reads; a third has returned and closed its own.
SessionIsolationWitness ==
    /\ Len(tasks) = 3
    /\ tasks[1].state = "started" /\ tasks[2].state = "started"
    /\ tasks[1].session # tasks[2].session
    /\ sessions[tasks[1].session] = "open"
    /\ sessions[tasks[2].session] = "open"
    /\ tasks[3].state = "done" /\ tasks[3].calls # <<>>
    /\ sessions[tasks[3].session] = "closed"
    /\ sessions[ReadSession] = "open"
    /\ pc = "next"

====
